---- MODULE Spec2Model ----
(***************************************************************************)
(* State-machine model of the todo backend (fastapi-todo-app): the        *)
(* document collection, the repository (todo_repository.py), the service  *)
(* (todo_service.py) and the HTTP endpoints (endpoints/todos.py).          *)
(*                                                                         *)
(* An ObjectId is modelled by the number the driver would encode in it;    *)
(* its text form is the zero-padded hexadecimal string of OidLen digits.   *)
(* A datetime is an instant counted in microseconds, the resolution of     *)
(* datetime; the store holds a date as a count of milliseconds.            *)
(* An Optional value is <<>> (None) or <<v>>.                              *)
(***************************************************************************)
EXTENDS Integers, Sequences, FiniteSets, TLC

VARIABLES
  collection,  \* the todos collection: ObjectId -> document
  nextId,      \* the ObjectId the driver generates for the next insert
  now,         \* the reading of datetime.utcnow()
  last,        \* the request just served, until its response is sent: its
               \* arguments, its answer, the collection before it and the
               \* store calls it issued
  created,     \* per record not written since its creation: the create
               \* payload and the id returned to the client
  walk,        \* a client reading pages 1, 2, ... of one listing
  stamped,     \* per stored record: the id and the created_at that the
               \* create_todo which made it answered
  user_collection,  \* the users collection of the users backend
  nextUserId,       \* the ObjectId the driver generates for the next user
  user_last,        \* the users request just served, until its response is
                    \* sent
  tasks,            \* the update_todo requests in flight: per task the
                    \* await it is suspended at, its arguments and its answer
  write_log         \* the tasks whose update_one the store applied, in order

vars == <<collection, nextId, now, last, created, walk, stamped,
          user_collection, nextUserId, user_last, tasks, write_log>>

\* (a task also keeps the collection as it was at each of its store calls)

\* the state of the todo backend and the state of the users backend
todoVars == <<collection, nextId, now, last, created, walk, stamped>>
userVars == <<user_collection, nextUserId, user_last>>

\* the requests that are served step by step, one store call at a time
taskVars == <<tasks, write_log>>

----------------------------------------------------------------------------
(* Bounds of the model *)

\* ObjectIds the store hands out in one run of the CRUD specification
MaxTodos == 2
\* ObjectIds the store hands out in one run of the listing specification
MaxListTodos == 3
\* ObjectIds the store hands out in one run of the users specification
MaxUsers == 2
\* times the clock advances in one run
MaxTime == 2
\* highest page number a listing request asks for
MaxPage == 3

\* length of the text form of an ObjectId (ObjectId.is_valid)
OidLen == 24

----------------------------------------------------------------------------
(* Optional values *)

None == <<>>
Some(v) == <<v>>
IsNone(o) == o = <<>>
Get(o) == o[1]

----------------------------------------------------------------------------
(* Dates in the store: the driver encodes a datetime as a BSON date, a     *)
(* count of whole milliseconds, and decodes it back to a datetime          *)

MicrosPerMilli == 1000

\* datetime -> BSON date: the microseconds below a millisecond are dropped
EncodeDatetime(dt) == dt \div MicrosPerMilli

\* BSON date -> datetime
DecodeDatetime(ms) == ms * MicrosPerMilli

DatetimeFields == {"created_at", "updated_at"}
OptionalDatetimeFields == {"due_date"}

\* the document the driver sends for a dict: its datetimes encoded
BsonEncode(fields) ==
  [k \in DOMAIN fields |->
     IF k \in DatetimeFields THEN EncodeDatetime(fields[k])
     ELSE IF k \in OptionalDatetimeFields /\ ~IsNone(fields[k])
          THEN Some(EncodeDatetime(Get(fields[k])))
          ELSE fields[k]]

\* the dict the driver returns for a stored document: its dates decoded
BsonDecode(doc) ==
  [k \in DOMAIN doc |->
     IF k \in DatetimeFields THEN DecodeDatetime(doc[k])
     ELSE IF k \in OptionalDatetimeFields /\ ~IsNone(doc[k])
          THEN Some(DecodeDatetime(Get(doc[k])))
          ELSE doc[k]]

----------------------------------------------------------------------------
(* models/todo.py : enumerations and schemas *)

TodoStatus == {"pending", "in_progress", "completed"}
TodoPriority == {"low", "medium", "high"}

StatusDefault == "pending"
PriorityDefault == "medium"

\* fields of TodoBase, in declaration order
BaseFields == {"title", "description", "status", "priority", "due_date"}
\* fields of TodoBase whose type is Optional[...]: they hold None or a value
OptionalFields == {"description", "due_date"}

\* TodoCreateDict with another default for the priority
TodoCreateDictLowDefault(p) ==
  [title       |-> p.title,
   description |-> p.description,
   status      |-> IF IsNone(p.status) THEN "pending" ELSE Get(p.status),
   priority    |-> IF IsNone(p.priority) THEN "low" ELSE Get(p.priority),
   due_date    |-> p.due_date]

\* TodoCreate(...).dict(): the payload with the defaults of TodoBase applied to
\* the fields the client omitted
TodoCreateDict(p) ==
  [title       |-> p.title,
   description |-> p.description,
   status      |-> IF IsNone(p.status) THEN StatusDefault ELSE Get(p.status),
   priority    |-> IF IsNone(p.priority) THEN PriorityDefault ELSE Get(p.priority),
   due_date    |-> p.due_date]

\* TodoInDB(**doc): the document the driver returned, as a model object
TodoInDB(doc) ==
  [id          |-> doc.id,
   title       |-> doc.title,
   description |-> doc.description,
   status      |-> doc.status,
   priority    |-> doc.priority,
   due_date    |-> doc.due_date,
   created_at  |-> doc.created_at,
   updated_at  |-> doc.updated_at]

----------------------------------------------------------------------------
(* bson.ObjectId : text form, validation, parsing *)

HexDigits == <<"0", "1", "2", "3", "4", "5", "6", "7",
               "8", "9", "a", "b", "c", "d", "e", "f">>
UpperHexDigits == <<"0", "1", "2", "3", "4", "5", "6", "7",
                    "8", "9", "A", "B", "C", "D", "E", "F">>

HexChars == {HexDigits[i] : i \in 1..16} \cup {UpperHexDigits[i] : i \in 1..16}

\* the value of each hexadecimal digit, of either case
HexDigitValues ==
  [c \in HexChars |->
     CHOOSE v \in 0..15 : HexDigits[v + 1] = c \/ UpperHexDigits[v + 1] = c]

HexDigitValue(c) == HexDigitValues[c]

\* n shifted right by k hexadecimal digits (n is below 16^8)
ShiftRight(n, k) == IF k >= 8 THEN 0 ELSE n \div (16 ^ k)

\* n written with len lower-case hexadecimal digits, zero-padded
ToHex(n, len) ==
  [i \in 1..len |-> HexDigits[(ShiftRight(n, len - i) % 16) + 1]]

\* str(oid)
OidStr(oid) == ToHex(oid, OidLen)

\* ObjectIdIsValid without the check of the length
ObjectIdIsValidAnyLength(s) ==
  \A i \in 1..Len(s) : s[i] \in {HexDigits[n] : n \in 1..16}

\* ObjectId.is_valid(s) for a str argument
ObjectIdIsValid(s) ==
  /\ Len(s) = OidLen
  /\ \A i \in 1..Len(s) : s[i] \in HexChars

\* the number written by the first n hexadecimal digits of s
RECURSIVE HexValue(_, _)
HexValue(s, n) ==
  IF n = 0 THEN 0
  ELSE HexValue(s, n - 1) * 16 + HexDigitValue(s[n])

\* ObjectId(s), for a valid s
ObjectId(s) == HexValue(s, Len(s))

----------------------------------------------------------------------------
(* The document collection (motor): the store calls the repository issues. *)
(* A collection is a function from the ObjectIds present to documents.     *)

\* insert_one(fields), the driver generating the _id oid
insert_one(coll, oid, fields) ==
  [i \in DOMAIN coll \cup {oid} |->
     IF i = oid
     THEN [id          |-> oid,
           title       |-> BsonEncode(fields).title,
           description |-> BsonEncode(fields).description,
           status      |-> BsonEncode(fields).status,
           priority    |-> BsonEncode(fields).priority,
           due_date    |-> BsonEncode(fields).due_date,
           created_at  |-> BsonEncode(fields).created_at,
           updated_at  |-> BsonEncode(fields).updated_at]
     ELSE coll[i]]

\* find_one({"_id": oid}): None or the document, decoded
find_one(coll, oid) ==
  IF oid \in DOMAIN coll THEN Some(BsonDecode(coll[oid])) ELSE None

\* the stored document after {"$set": set}
ApplySet(doc, set) ==
  [k \in DOMAIN doc |->
     IF k \in DOMAIN set THEN BsonEncode(set)[k] ELSE doc[k]]

\* update_one({"_id": oid}, {"$set": set}): the collection afterwards and the
\* UpdateResult; modified_count counts a document only if the write changed it
update_one(coll, oid, set) ==
  IF oid \in DOMAIN coll
  THEN [coll           |-> [coll EXCEPT ![oid] = ApplySet(coll[oid], set)],
        matched_count  |-> 1,
        modified_count |-> IF ApplySet(coll[oid], set) = coll[oid] THEN 0 ELSE 1]
  ELSE [coll |-> coll, matched_count |-> 0, modified_count |-> 0]

\* delete_one that acknowledges a delete whether or not a document matched
delete_one_acknowledged(coll, oid) ==
  [coll          |-> [i \in DOMAIN coll \ {oid} |-> coll[i]],
   deleted_count |-> 1]

\* delete_one({"_id": oid}): the collection afterwards and deleted_count
delete_one(coll, oid) ==
  IF oid \in DOMAIN coll
  THEN [coll          |-> [i \in DOMAIN coll \ {oid} |-> coll[i]],
        deleted_count |-> 1]
  ELSE [coll |-> coll, deleted_count |-> 0]

\* a document matches an equality filter: every key of the filter is equal
Matches(doc, filter_query) ==
  \A k \in DOMAIN filter_query : doc[k] = filter_query[k]

Matching(coll, filter_query) ==
  {i \in DOMAIN coll : Matches(coll[i], filter_query)}

\* count_documents(filter_query)
count_documents(coll, filter_query) ==
  Cardinality(Matching(coll, filter_query))

----------------------------------------------------------------------------
(* Sorting: the store compares strings by code point, dates by instant     *)

\* the characters the enumeration values are written with, in code-point order
CodePoints == <<"_", "a", "b", "c", "d", "e", "f", "g", "h", "i", "j", "k",
                "l", "m", "n", "o", "p", "q", "r", "s", "t", "u", "v", "w",
                "x", "y", "z">>

CodePoint(c) == CHOOSE n \in 1..Len(CodePoints) : CodePoints[n] = c

\* the characters of a stored string
StrChars(s) ==
  CASE s = "low"         -> <<"l", "o", "w">>
    [] s = "medium"      -> <<"m", "e", "d", "i", "u", "m">>
    [] s = "high"        -> <<"h", "i", "g", "h">>
    [] s = "pending"     -> <<"p", "e", "n", "d", "i", "n", "g">>
    [] s = "in_progress" -> <<"i", "n", "_", "p", "r", "o", "g", "r", "e", "s", "s">>
    [] s = "completed"   -> <<"c", "o", "m", "p", "l", "e", "t", "e", "d">>
    [] s = "a"           -> <<"a">>
    [] s = "b"           -> <<"b">>
    [] s = "x"           -> <<"x">>
    [] s = "y"           -> <<"y">>

RECURSIVE SeqLess(_, _)
SeqLess(a, b) ==
  IF b = <<>> THEN FALSE
  ELSE IF a = <<>> THEN TRUE
  ELSE IF CodePoint(Head(a)) # CodePoint(Head(b))
       THEN CodePoint(Head(a)) < CodePoint(Head(b))
       ELSE SeqLess(Tail(a), Tail(b))

StringFields == {"title", "status", "priority"}

\* the store's order on the values of one sort field
KeyLess(sort_by, a, b) ==
  IF sort_by \in StringFields
  THEN SeqLess(StrChars(a), StrChars(b))
  ELSE a < b

ASCENDING == 1
DESCENDING == -1

\* ids is in the order of sort_query = [(sort_by, sort_direction)]
IsSorted(coll, ids, sort_by, sort_direction) ==
  \A i \in 1..Len(ids) : \A j \in 1..Len(ids) :
    i < j =>
      IF sort_direction = ASCENDING
      THEN ~KeyLess(sort_by, coll[ids[j]][sort_by], coll[ids[i]][sort_by])
      ELSE ~KeyLess(sort_by, coll[ids[i]][sort_by], coll[ids[j]][sort_by])

Orderings(S) ==
  {s \in [1..Cardinality(S) -> S] :
     \A i \in 1..Cardinality(S) : \A j \in 1..Cardinality(S) :
       s[i] = s[j] => i = j}

\* find(filter).sort(sort_query): every order the store may return the matching
\* documents in. Documents with equal sort keys come in any order, and the
\* order may differ from one query to the next.
find_sorted(coll, filter_query, sort_by, sort_direction) ==
  {ids \in Orderings(Matching(coll, filter_query)) :
     IsSorted(coll, ids, sort_by, sort_direction)}

\* SkipLimit that lets one document more than limit through
SkipLimitOneMore(ids, skip, limit) ==
  SubSeq(ids, skip + 1,
         IF skip + limit + 1 < Len(ids) THEN skip + limit + 1 ELSE Len(ids))

\* cursor.skip(skip).limit(limit)
SkipLimit(ids, skip, limit) ==
  SubSeq(ids, skip + 1, IF skip + limit < Len(ids) THEN skip + limit ELSE Len(ids))

----------------------------------------------------------------------------
(* repositories/todo_repository.py                                         *)
(* Each operation yields the collection afterwards, what it returns and    *)
(* the store calls it issued, in order.                                    *)

\* create_todo(todo_data), the driver generating ObjectId oid, utcnow() = t
RepoCreateTodo(coll, oid, todo_data, t) ==
  LET todo_dict == [title       |-> TodoCreateDict(todo_data).title,
                    description |-> TodoCreateDict(todo_data).description,
                    status      |-> TodoCreateDict(todo_data).status,
                    priority    |-> TodoCreateDict(todo_data).priority,
                    due_date    |-> TodoCreateDict(todo_data).due_date,
                    created_at  |-> t,
                    updated_at  |-> t]
      after == insert_one(coll, oid, todo_dict)
      created_todo == find_one(after, oid)
  IN [coll  |-> after,
      ret   |-> TodoInDB(Get(created_todo)),
      calls |-> <<"insert_one", "find_one">>]

\* get_todo_by_id(todo_id)
RepoGetTodoById(coll, todo_id) ==
  IF ~ObjectIdIsValid(todo_id)
  THEN [coll |-> coll, ret |-> None, calls |-> <<>>]
  ELSE LET todo == find_one(coll, ObjectId(todo_id))
       IN [coll  |-> coll,
           ret   |-> IF IsNone(todo) THEN None ELSE Some(TodoInDB(Get(todo))),
           calls |-> <<"find_one">>]

\* UpdateData of a payload whose status and priority default as in TodoBase:
\* the two are written also when the client left them out
UpdateDataWithDefaults(todo_data) ==
  [k \in {f \in BaseFields : ~IsNone(todo_data[f])} \cup {"status", "priority"} |->
     IF IsNone(todo_data[k])
     THEN (IF k = "status" THEN "pending" ELSE "medium")
     ELSE IF k \in OptionalFields THEN todo_data[k] ELSE Get(todo_data[k])]

\* UpdateData of a TodoUpdate that keeps the keys it does not declare
UpdateDataAllKeys(todo_data) ==
  [k \in {f \in DOMAIN todo_data : ~IsNone(todo_data[f])} |->
     IF k \in OptionalFields THEN todo_data[k] ELSE Get(todo_data[k])]

\* UpdateData that keeps the null of a field that may be unset
UpdateDataKeepsNulls(todo_data) ==
  [k \in {f \in BaseFields : ~IsNone(todo_data[f])} \cup OptionalFields |->
     IF k \in OptionalFields THEN todo_data[k] ELSE Get(todo_data[k])]

\* {k: v for k, v in todo_data.dict().items() if v is not None}: the fields
\* TodoUpdate declares, whatever other keys the request body had
UpdateData(todo_data) ==
  [k \in {f \in BaseFields : ~IsNone(todo_data[f])} |->
     IF k \in OptionalFields THEN todo_data[k] ELSE Get(todo_data[k])]

\* update_data["updated_at"] = datetime.utcnow()
WithUpdatedAt(update_data, t) ==
  [k \in DOMAIN update_data \cup {"updated_at"} |->
     IF k = "updated_at" THEN t ELSE update_data[k]]

\* RepoUpdateTodo without the early return for an empty update_data
RepoUpdateTodoAlwaysWrites(coll, todo_id, todo_data, t) ==
  IF ~ObjectIdIsValid(todo_id)
  THEN [coll |-> coll, ret |-> None, calls |-> <<>>]
  ELSE LET result == update_one(coll, ObjectId(todo_id),
                                WithUpdatedAt(UpdateData(todo_data), t))
       IN IF result.modified_count # 0
          THEN [coll  |-> result.coll,
                ret   |-> RepoGetTodoById(result.coll, todo_id).ret,
                calls |-> <<"update_one", "find_one">>]
          ELSE [coll |-> result.coll, ret |-> None, calls |-> <<"update_one">>]

\* update_todo(todo_id, todo_data), utcnow() = t
RepoUpdateTodo(coll, todo_id, todo_data, t) ==
  IF ~ObjectIdIsValid(todo_id)
  THEN [coll |-> coll, ret |-> None, calls |-> <<>>]
  ELSE IF DOMAIN UpdateData(todo_data) = {}
  THEN RepoGetTodoById(coll, todo_id)
  ELSE LET result == update_one(coll, ObjectId(todo_id),
                                WithUpdatedAt(UpdateData(todo_data), t))
       IN IF result.modified_count # 0
          THEN [coll  |-> result.coll,
                ret   |-> RepoGetTodoById(result.coll, todo_id).ret,
                calls |-> <<"update_one", "find_one">>]
          ELSE [coll |-> result.coll, ret |-> None, calls |-> <<"update_one">>]

\* delete_todo(todo_id)
RepoDeleteTodo(coll, todo_id) ==
  IF ~ObjectIdIsValid(todo_id)
  THEN [coll |-> coll, ret |-> FALSE, calls |-> <<>>]
  ELSE LET result == delete_one(coll, ObjectId(todo_id))
       IN [coll  |-> result.coll,
           ret   |-> result.deleted_count > 0,
           calls |-> <<"delete_one">>]

\* filter_query of get_todos: a key for each filter that is given
FilterQuery(status, priority) ==
  [k \in {f \in {"status", "priority"} :
            (f = "status" /\ ~IsNone(status)) \/ (f = "priority" /\ ~IsNone(priority))} |->
     IF k = "status" THEN Get(status) ELSE Get(priority)]

SortDirection(sort_order) ==
  IF sort_order = "desc" THEN DESCENDING ELSE ASCENDING

\* get_todos(skip, limit, status, priority, sort_by, sort_order): the results the
\* store may give, one for each order it may return the sorted documents in
RepoGetTodos(coll, skip, limit, status, priority, sort_by, sort_order) ==
  {[todos |-> [n \in 1..Len(SkipLimit(ids, skip, limit)) |->
                 TodoInDB(BsonDecode(coll[SkipLimit(ids, skip, limit)[n]]))],
    total |-> count_documents(coll, FilterQuery(status, priority))] :
     ids \in find_sorted(coll, FilterQuery(status, priority), sort_by,
                         SortDirection(sort_order))}

\* IsOverdue with $lte in place of $lt
IsOverdueInclusive(doc, t) ==
  /\ ~IsNone(doc.due_date)
  /\ Get(doc.due_date) <= EncodeDatetime(t)
  /\ doc.status # "completed"

\* a stored document matches
\* {"due_date": {"$lt": t}, "status": {"$ne": COMPLETED}}: the driver encodes
\* t as it does every datetime, and $lt compares only values of the type of
\* t, so a null due_date never matches
IsOverdue(doc, t) ==
  /\ ~IsNone(doc.due_date)
  /\ Get(doc.due_date) < EncodeDatetime(t)
  /\ doc.status # "completed"

\* get_overdue_todos(), utcnow() = t: the documents returned (the store fixes
\* no order for them)
RepoGetOverdueTodos(coll, t) ==
  {TodoInDB(BsonDecode(coll[i])) :
     i \in {j \in DOMAIN coll : IsOverdue(coll[j], t)}}

----------------------------------------------------------------------------
(* services/todo_service.py *)

\* _convert_to_response(todo_in_db)
convert_to_response(todo_in_db) ==
  [id          |-> OidStr(todo_in_db.id),
   title       |-> todo_in_db.title,
   description |-> todo_in_db.description,
   status      |-> todo_in_db.status,
   priority    |-> todo_in_db.priority,
   due_date    |-> todo_in_db.due_date,
   created_at  |-> todo_in_db.created_at,
   updated_at  |-> todo_in_db.updated_at]

\* the Optional[TodoResponse] of get_todo and update_todo
OptionalResponse(ret) ==
  IF IsNone(ret) THEN None ELSE Some(convert_to_response(Get(ret)))

\* skip = (page - 1) * size
Skip(page, size) == (page - 1) * size

\* the integer quotient in place of the ceiling
CeilTruncated(total, size) == total \div size

\* ceil(total / size)
Ceil(total, size) ==
  IF total % size = 0 THEN total \div size ELSE (total \div size) + 1

\* pages = ceil(total / size) if total > 0 else 1
Pages(total, size) ==
  IF total > 0 THEN Ceil(total, size) ELSE 1

\* get_todos(page, size, status, priority, sort_by, sort_order): the envelopes
\* it may return, each with the skip and limit it passed to the repository
ServiceGetTodos(coll, page, size, status, priority, sort_by, sort_order) ==
  {[todos |-> [n \in 1..Len(r.todos) |-> convert_to_response(r.todos[n])],
    total |-> r.total,
    page  |-> page,
    size  |-> size,
    pages |-> Pages(r.total, size),
    skip  |-> Skip(page, size),
    limit |-> size] :
     r \in RepoGetTodos(coll, Skip(page, size), size, status, priority,
                        sort_by, sort_order)}

----------------------------------------------------------------------------
(* State *)

EmptyCollection == <<>>

NoLast ==
  [op |-> "none", todo_id |-> <<>>, body |-> <<>>, data |-> <<>>,
   before |-> EmptyCollection,
   at |-> 0, ret |-> None, ok |-> FALSE, http |-> 0, calls |-> <<>>,
   todos |-> <<>>, total |-> 0, page |-> 0, size |-> 0, pages |-> 0,
   skip |-> 0, limit |-> 0, status |-> None, priority |-> None,
   sort_by |-> "", sort_order |-> ""]

NoWalk ==
  [active |-> FALSE, size |-> 0, status |-> None, priority |-> None,
   sort_by |-> "", sort_order |-> "", next |-> 0, pages |-> 0, total |-> 0,
   seen |-> <<>>]

\* the clock reading when the service starts: a whole millisecond
StartTime == MicrosPerMilli

\* what the clock advances by between two requests: half a millisecond, so
\* that two readings may or may not fall in the same millisecond
ClockStep == MicrosPerMilli \div 2

\* two callers, each sending one request that is served step by step
Tasks == {1, 2}

\* a task that has not sent its request
NoTask ==
  [pc |-> "idle", op |-> "none", todo_id |-> <<>>, data |-> <<>>,
   update_data |-> <<>>, present |-> FALSE, ret |-> None, http |-> 0,
   calls |-> <<>>, page |-> 0, size |-> 0, status |-> None,
   priority |-> None, sort_by |-> "", sort_order |-> "", skip |-> 0,
   total |-> 0, pages |-> 0, todos |-> <<>>,
   at_count |-> EmptyCollection, at_find |-> EmptyCollection]

\* no users request is being served
NoUserLast ==
  [op |-> "none", user_id |-> <<>>, before |-> EmptyCollection, ret |-> None,
   ok |-> FALSE, raised |-> "", http |-> 0, calls |-> <<>>, users |-> {}]

Init ==
  /\ collection = EmptyCollection
  /\ nextId = 1
  /\ now = StartTime
  /\ last = NoLast
  /\ created = <<>>
  /\ stamped = <<>>
  /\ user_collection = EmptyCollection
  /\ nextUserId = 1
  /\ user_last = NoUserLast
  /\ tasks = [k \in Tasks |-> NoTask]
  /\ write_log = <<>>
  /\ walk = NoWalk

\* the record of ObjectId oid was written: it leaves the history
MarkWritten(hist, oid) ==
  [i \in DOMAIN hist \ {oid} |-> hist[i]]

\* no request is being served
Idle == last.op = "none"

----------------------------------------------------------------------------
(* api/v1/endpoints/todos.py : one action per endpoint *)

\* the clock advances; only requests read it, so it moves between requests
Tick(cap) ==
  /\ Idle
  /\ now < StartTime + cap * ClockStep
  /\ now' = now + ClockStep
  /\ UNCHANGED <<collection, nextId, last, created, walk, stamped>>
  /\ UNCHANGED userVars
  /\ UNCHANGED taskVars

\* In the handlers below, r is the one value the repository call returns
\* (a one-element set) and the conjuncts after it are the rest of the handler.

\* POST /todos
CreateTodo(todo_data, cap) ==
  /\ nextId <= cap
  /\ Idle
  /\ \E r \in {RepoCreateTodo(collection, nextId, todo_data, now)} :
     \E response \in {convert_to_response(r.ret)} :
        /\ collection' = r.coll
        /\ last' = [NoLast EXCEPT !.op = "create_todo", !.data = todo_data,
                                  !.before = collection, !.at = now,
                                  !.ret = Some(response), !.http = 201,
                                  !.calls = r.calls]
        /\ created' = [i \in DOMAIN created \cup {nextId} |->
                         IF i = nextId
                         THEN [data |-> todo_data, id |-> response.id]
                         ELSE created[i]]
        /\ stamped' = [i \in DOMAIN stamped \cup {nextId} |->
                         IF i = nextId
                         THEN [id |-> response.id,
                               created_at |-> response.created_at]
                         ELSE stamped[i]]
  /\ nextId' = nextId + 1
  /\ walk' = NoWalk
  /\ UNCHANGED now
  /\ UNCHANGED userVars
  /\ UNCHANGED taskVars

\* GET /todos/{todo_id}
GetTodo(todo_id) ==
  /\ Idle
  /\ \E r \in {RepoGetTodoById(collection, todo_id)} :
     \E todo \in {OptionalResponse(r.ret)} :
        last' = [NoLast EXCEPT !.op = "get_todo", !.todo_id = todo_id,
                               !.before = collection, !.at = now,
                               !.ret = todo,
                               !.http = IF IsNone(todo) THEN 404 ELSE 200,
                               !.calls = r.calls]
  /\ UNCHANGED <<collection, nextId, now, created, walk, stamped>>
  /\ UNCHANGED userVars
  /\ UNCHANGED taskVars

\* the response of the request served is sent to the client
Respond ==
  /\ ~Idle
  /\ last' = NoLast
  /\ walk' = NoWalk
  /\ UNCHANGED <<collection, nextId, now, created, stamped>>
  /\ UNCHANGED userVars
  /\ UNCHANGED taskVars

\* PUT /todos/{todo_id}
UpdateTodo(todo_id, todo_data) ==
  /\ Idle
  /\ \E r \in {RepoUpdateTodo(collection, todo_id, todo_data, now)} :
     \E updated_todo \in {OptionalResponse(r.ret)} :
        /\ collection' = r.coll
        /\ last' = [NoLast EXCEPT !.op = "update_todo", !.todo_id = todo_id,
                                  !.data = todo_data, !.before = collection,
                                  !.at = now, !.ret = updated_todo,
                                  !.http = IF IsNone(updated_todo) THEN 404 ELSE 200,
                                  !.calls = r.calls]
        /\ created' = IF r.calls # <<>> /\ r.calls[1] = "update_one"
                      THEN MarkWritten(created, ObjectId(todo_id))
                      ELSE created
  /\ walk' = NoWalk
  /\ UNCHANGED <<nextId, now, stamped>>
  /\ UNCHANGED userVars
  /\ UNCHANGED taskVars

\* DELETE /todos/{todo_id}
DeleteTodo(todo_id) ==
  /\ Idle
  /\ \E r \in {RepoDeleteTodo(collection, todo_id)} :
        /\ collection' = r.coll
        /\ last' = [NoLast EXCEPT !.op = "delete_todo", !.todo_id = todo_id,
                                  !.before = collection, !.at = now,
                                  !.ok = r.ret,
                                  !.http = IF r.ret THEN 204 ELSE 404,
                                  !.calls = r.calls]
        /\ created' = IF r.calls # <<>>
                      THEN MarkWritten(created, ObjectId(todo_id))
                      ELSE created
        /\ stamped' = IF r.ret
                      THEN MarkWritten(stamped, ObjectId(todo_id))
                      ELSE stamped
  /\ walk' = NoWalk
  /\ UNCHANGED <<nextId, now>>
  /\ UNCHANGED userVars
  /\ UNCHANGED taskVars

\* GET /todos/overdue/list
GetOverdueTodos ==
  /\ Idle
  /\ LET todos_in_db == RepoGetOverdueTodos(collection, now)
     IN last' = [NoLast EXCEPT !.op = "get_overdue_todos",
                               !.before = collection, !.at = now,
                               !.todos = {convert_to_response(todo) :
                                            todo \in todos_in_db},
                               !.http = 200, !.calls = <<"find">>]
  /\ UNCHANGED <<collection, nextId, now, created, walk, stamped>>
  /\ UNCHANGED userVars
  /\ UNCHANGED taskVars

\* the ids of the responses in a page, in order
PageIds(todos) == [n \in 1..Len(todos) |-> todos[n].id]

\* the walk after one more listing request: page 1 starts a walk, the next
\* page of the same listing continues it, any other request is no walk
WalkAfter(w, e, status, priority, sort_by, sort_order) ==
  IF e.page = 1
  THEN [active |-> TRUE, size |-> e.size, status |-> status,
        priority |-> priority, sort_by |-> sort_by, sort_order |-> sort_order,
        next |-> 2, pages |-> e.pages, total |-> e.total,
        seen |-> PageIds(e.todos)]
  ELSE IF w.active /\ e.page = w.next
       THEN [w EXCEPT !.next = w.next + 1, !.seen = w.seen \o PageIds(e.todos)]
       ELSE NoWalk

\* the get_todos endpoint serves one request
ListRequest(page, size, status, priority, sort_by, sort_order) ==
  /\ \E e \in ServiceGetTodos(collection, page, size, status, priority,
                              sort_by, sort_order) :
       /\ last' = [NoLast EXCEPT !.op = "get_todos", !.before = collection,
                                 !.at = now, !.todos = e.todos,
                                 !.total = e.total, !.page = e.page,
                                 !.size = e.size, !.pages = e.pages,
                                 !.skip = e.skip, !.limit = e.limit,
                                 !.status = status, !.priority = priority,
                                 !.sort_by = sort_by, !.sort_order = sort_order,
                                 !.http = 200,
                                 !.calls = <<"count_documents", "find">>]
       /\ walk' = WalkAfter(walk, e, status, priority, sort_by, sort_order)
  /\ UNCHANGED <<collection, nextId, now, created, stamped>>
  /\ UNCHANGED userVars
  /\ UNCHANGED taskVars

\* GET /todos?page&size&status&priority&sort_by&sort_order
GetTodos(page, size, status, priority, sort_by, sort_order) ==
  /\ Idle
  /\ ListRequest(page, size, status, priority, sort_by, sort_order)

\* GET /todos for the next page of the listing whose previous page was just
\* answered: the client reads on, and no other request comes in between
GetNextPage ==
  /\ last.op = "get_todos"
  /\ walk.active
  /\ walk.next <= walk.pages
  /\ ListRequest(walk.next, walk.size, walk.status, walk.priority,
                 walk.sort_by, walk.sort_order)

----------------------------------------------------------------------------
(* Requests the clients send *)

CreatePayload(title, description, status, priority, due_date) ==
  [title |-> title, description |-> description, status |-> status,
   priority |-> priority, due_date |-> due_date]

UpdatePayload(title, description, status, priority, due_date) ==
  [title |-> title, description |-> description, status |-> status,
   priority |-> priority, due_date |-> due_date]

\* id strings that are no ObjectId: one of the wrong length, one with a
\* character that is no hexadecimal digit
ShortHexId == ToHex(1, OidLen - 1)
NonHexId == Append(ToHex(1, OidLen - 1), "g")
MalformedIds == {ShortHexId, NonHexId}

\* the text forms of the ObjectIds 1..cap, the ones a run may issue
WellFormedIds(cap) == {OidStr(i) : i \in 1..cap}

\* the ids of the records a run of the CRUD specification may hold
IssuableIds == WellFormedIds(MaxTodos)

IdInputs == IssuableIds \cup MalformedIds

\* an instant that is no whole millisecond
SubMilliInstant == StartTime + ClockStep

\* a request body that also names an id and a created_at, which neither
\* TodoCreate nor TodoUpdate declares: an ObjectId the store never issues and
\* the instant before the service started
ClientId == 99
ClientCreatedAt == StartTime - MicrosPerMilli
WithClientFields(payload) ==
  [k \in DOMAIN payload \cup {"id", "created_at"} |->
     IF k = "id" THEN Some(ClientId)
     ELSE IF k = "created_at" THEN Some(ClientCreatedAt)
     ELSE payload[k]]

CreateInputs ==
  {CreatePayload("a", None, None, None, None),
   WithClientFields(CreatePayload("b", Some("x"), Some("completed"),
                                  Some("high"), Some(SubMilliInstant)))}

EmptyUpdate == UpdatePayload(None, None, None, None, None)

UpdateInputs ==
  {EmptyUpdate,
   UpdatePayload(None, None, Some("completed"), None, None),
   WithClientFields(UpdatePayload(Some("b"), Some("x"), None, None,
                                  Some(SubMilliInstant)))}

----------------------------------------------------------------------------
(* The CRUD specification: create, read, update, delete, and the clock *)

Next ==
  \/ Tick(MaxTime)
  \/ \E todo_data \in CreateInputs : CreateTodo(todo_data, MaxTodos)
  \/ \E todo_id \in IdInputs : GetTodo(todo_id)
  \/ \E todo_id \in IdInputs : \E todo_data \in UpdateInputs :
       UpdateTodo(todo_id, todo_data)
  \/ \E todo_id \in IdInputs : DeleteTodo(todo_id)
  \/ Respond

Spec == Init /\ [][Next]_vars

----------------------------------------------------------------------------
(* The overdue specification: todos with due dates, status changes, the    *)
(* clock, and the overdue listing                                          *)

OverdueCreateInputs ==
  {CreatePayload("a", None, None, None, None),
   CreatePayload("a", None, None, None, Some(StartTime)),
   CreatePayload("a", None, Some("in_progress"), None,
                 Some(StartTime + 2 * ClockStep))}

StatusUpdates ==
  {UpdatePayload(None, None, Some("completed"), None, None),
   UpdatePayload(None, None, Some("pending"), None, None)}

NextOverdue ==
  \/ Tick(MaxTime)
  \/ \E todo_data \in OverdueCreateInputs : CreateTodo(todo_data, MaxTodos)
  \/ \E todo_id \in IssuableIds : \E todo_data \in StatusUpdates :
       UpdateTodo(todo_id, todo_data)
  \/ GetOverdueTodos
  \/ Respond

SpecOverdue == Init /\ [][NextOverdue]_vars

----------------------------------------------------------------------------
(* The listing specification: todos of several priorities, and clients     *)
(* reading the paginated listing. The listing does not read the clock: the *)
(* todos are created within one millisecond.                               *)

ListCreateInputs ==
  {CreatePayload("a", None, None, Some("low"), None),
   CreatePayload("a", None, None, None, None),
   CreatePayload("a", None, Some("completed"), Some("high"), None)}

\* page sizes: the smallest, one that splits the todos, the largest allowed
ListSizes == {1, 2, 100}
StatusFilters == {None, Some("completed")}
PriorityFilters == {None, Some("high")}
SortFields == {"priority", "created_at"}
SortOrders == {"asc", "desc"}

NextList ==
  \/ \E todo_data \in ListCreateInputs : CreateTodo(todo_data, MaxListTodos)
  \/ \E page \in 1..MaxPage : \E size \in ListSizes :
       \E status \in StatusFilters : \E priority \in PriorityFilters :
         \E sort_by \in SortFields : \E sort_order \in SortOrders :
           GetTodos(page, size, status, priority, sort_by, sort_order)
  \/ GetNextPage
  \/ Respond

SpecList == Init /\ [][NextList]_vars

----------------------------------------------------------------------------
(* The users backend (fastapi-project): app/crud.py *)

\* ObjectId(id) raises InvalidId for a string that is no 24-digit hexadecimal
\* string; crud.py calls it without ObjectId.is_valid before
ObjectIdRaises(id) == ~ObjectIdIsValid(id)

\* user_helper(user)
user_helper(user) ==
  [id |-> OidStr(user.id), name |-> user.name, email |-> user.email]

\* create_user(user), the driver generating ObjectId oid
create_user(coll, oid, user) ==
  LET after == [i \in DOMAIN coll \cup {oid} |->
                  IF i = oid
                  THEN [id |-> oid, name |-> user.name, email |-> user.email]
                  ELSE coll[i]]
      created_user == find_one(after, oid)
  IN [coll   |-> after,
      ret    |-> Some(user_helper(Get(created_user))),
      raised |-> "",
      calls  |-> <<"insert_one", "find_one">>]

\* get_users(): the users in the collection (the store fixes no order)
get_users(coll) ==
  {user_helper(coll[i]) : i \in DOMAIN coll}

\* get_user(id)
get_user(coll, id) ==
  IF ObjectIdRaises(id)
  THEN [coll |-> coll, ret |-> None, raised |-> "InvalidId", calls |-> <<>>]
  ELSE LET user == find_one(coll, ObjectId(id))
       IN [coll   |-> coll,
           ret    |-> IF IsNone(user) THEN None ELSE Some(user_helper(Get(user))),
           raised |-> "",
           calls  |-> <<"find_one">>]

\* delete_user(id)
delete_user(coll, id) ==
  IF ObjectIdRaises(id)
  THEN [coll |-> coll, ret |-> FALSE, raised |-> "InvalidId", calls |-> <<>>]
  ELSE LET result == delete_one(coll, ObjectId(id))
       IN [coll   |-> result.coll,
           ret    |-> result.deleted_count > 0,
           raised |-> "",
           calls  |-> <<"delete_one">>]

----------------------------------------------------------------------------
(* The users backend: app/routes.py, one action per route. An exception    *)
(* that no handler catches is answered with status 500.                    *)

UserIdle == user_last.op = "none"

\* POST /users
create(user, cap) ==
  /\ UserIdle
  /\ nextUserId <= cap
  /\ \E r \in {create_user(user_collection, nextUserId, user)} :
        /\ user_collection' = r.coll
        /\ user_last' = [NoUserLast EXCEPT !.op = "create",
                                           !.before = user_collection,
                                           !.ret = r.ret, !.http = 200,
                                           !.calls = r.calls]
  /\ nextUserId' = nextUserId + 1
  /\ UNCHANGED todoVars
  /\ UNCHANGED taskVars

\* GET /users
read_users ==
  /\ UserIdle
  /\ user_last' = [NoUserLast EXCEPT !.op = "read_users",
                                     !.before = user_collection,
                                     !.users = get_users(user_collection),
                                     !.http = 200, !.calls = <<"find">>]
  /\ UNCHANGED <<user_collection, nextUserId>>
  /\ UNCHANGED todoVars
  /\ UNCHANGED taskVars

\* GET /users/{user_id}
read_user(user_id) ==
  /\ UserIdle
  /\ \E r \in {get_user(user_collection, user_id)} :
        user_last' = [NoUserLast EXCEPT
                        !.op = "read_user", !.user_id = user_id,
                        !.before = user_collection, !.ret = r.ret,
                        !.raised = r.raised,
                        !.http = IF r.raised # "" THEN 500
                                 ELSE IF IsNone(r.ret) THEN 404 ELSE 200,
                        !.calls = r.calls]
  /\ UNCHANGED <<user_collection, nextUserId>>
  /\ UNCHANGED todoVars
  /\ UNCHANGED taskVars

\* DELETE /users/{user_id}
delete(user_id) ==
  /\ UserIdle
  /\ \E r \in {delete_user(user_collection, user_id)} :
        /\ user_collection' = r.coll
        /\ user_last' = [NoUserLast EXCEPT
                           !.op = "delete", !.user_id = user_id,
                           !.before = user_collection, !.ok = r.ret,
                           !.raised = r.raised,
                           !.http = IF r.raised # "" THEN 500
                                    ELSE IF r.ret THEN 200 ELSE 404,
                           !.calls = r.calls]
  /\ UNCHANGED nextUserId
  /\ UNCHANGED todoVars
  /\ UNCHANGED taskVars

\* the response of the users request served is sent to the client
UserRespond ==
  /\ ~UserIdle
  /\ user_last' = NoUserLast
  /\ UNCHANGED <<user_collection, nextUserId>>
  /\ UNCHANGED todoVars
  /\ UNCHANGED taskVars

UserInputs ==
  {[name |-> "a", email |-> "a@x"], [name |-> "b", email |-> "b@y"]}

UserIdInputs == WellFormedIds(MaxUsers) \cup MalformedIds

NextUsers ==
  \/ \E user \in UserInputs : create(user, MaxUsers)
  \/ read_users
  \/ \E user_id \in UserIdInputs : read_user(user_id)
  \/ \E user_id \in UserIdInputs : delete(user_id)
  \/ UserRespond

SpecUsers == Init /\ [][NextUsers]_vars

----------------------------------------------------------------------------
(* update_todo served step by step: the handler runs to its next await, the *)
(* store applies one call, the handler goes on. Between two steps of one    *)
(* request any step of another request may be taken.                        *)

\* PUT /todos/{todo_id} up to its first store call: the id is validated, the
\* update document is built and the clock is read
UpdateTodoStart(k, todo_id, todo_data) ==
  /\ tasks[k].pc = "idle"
  /\ tasks' =
       [tasks EXCEPT ![k] =
          IF ~ObjectIdIsValid(todo_id)
          THEN [NoTask EXCEPT !.pc = "done", !.op = "update_todo",
                              !.todo_id = todo_id, !.data = todo_data,
                              !.http = 404]
          ELSE IF DOMAIN UpdateData(todo_data) = {}
          THEN [NoTask EXCEPT !.pc = "find_one", !.op = "update_todo",
                              !.todo_id = todo_id, !.data = todo_data,
                              !.present = ObjectId(todo_id) \in DOMAIN collection]
          ELSE [NoTask EXCEPT !.pc = "update_one", !.op = "update_todo",
                              !.todo_id = todo_id, !.data = todo_data,
                              !.update_data = WithUpdatedAt(UpdateData(todo_data), now),
                              !.present = ObjectId(todo_id) \in DOMAIN collection]]
  /\ UNCHANGED <<todoVars, userVars, write_log>>

\* the store applies the update_one of task k; the handler tests
\* result.modified_count
UpdateTodoUpdateOne(k) ==
  /\ tasks[k].pc = "update_one"
  /\ \E result \in {update_one(collection, ObjectId(tasks[k].todo_id),
                                tasks[k].update_data)} :
        /\ collection' = result.coll
        /\ tasks' =
             [tasks EXCEPT ![k] =
                IF result.modified_count # 0
                THEN [@ EXCEPT !.pc = "find_one", !.calls = <<"update_one">>]
                ELSE [@ EXCEPT !.pc = "done", !.calls = <<"update_one">>,
                               !.ret = None, !.http = 404]]
  /\ write_log' = Append(write_log, k)
  /\ created' = MarkWritten(created, ObjectId(tasks[k].todo_id))
  /\ UNCHANGED <<nextId, now, last, walk, stamped, userVars>>

\* the store answers the find_one of task k (get_todo_by_id); the handler
\* answers the record or 404
UpdateTodoFindOne(k) ==
  /\ tasks[k].pc = "find_one"
  /\ tasks[k].op = "update_todo"
  /\ \E todo \in {OptionalResponse(RepoGetTodoById(collection, tasks[k].todo_id).ret)} :
        tasks' = [tasks EXCEPT ![k] =
                    [@ EXCEPT !.pc = "done",
                              !.calls = Append(@, "find_one"),
                              !.ret = todo,
                              !.http = IF IsNone(todo) THEN 404 ELSE 200]]
  /\ UNCHANGED <<todoVars, userVars, write_log>>

ConcurrentCreateInputs ==
  {CreatePayload("a", Some("y"), None, None, None)}

ConcurrentUpdates ==
  {UpdatePayload(None, None, Some("completed"), None, None),
   UpdatePayload(None, None, Some("pending"), None, None),
   UpdatePayload(Some("b"), Some("x"), None, None, None)}

NextConcurrent ==
  \/ Tick(MaxTime)
  \/ \E todo_data \in ConcurrentCreateInputs : CreateTodo(todo_data, MaxTodos)
  \/ Respond
  \/ \E k \in Tasks : \E todo_id \in IssuableIds :
       \E todo_data \in ConcurrentUpdates : UpdateTodoStart(k, todo_id, todo_data)
  \/ \E k \in Tasks : UpdateTodoUpdateOne(k)
  \/ \E k \in Tasks : UpdateTodoFindOne(k)

SpecConcurrent == Init /\ [][NextConcurrent]_vars

----------------------------------------------------------------------------
(* get_todos served step by step: the repository awaits count_documents,    *)
(* then the cursor of find; create_todo and delete_todo requests of other   *)
(* callers are served in between.                                           *)

\* GET /todos up to its first store call: skip is computed, the filter and
\* the sort are built
GetTodosStart(k, page, size, status, priority, sort_by, sort_order) ==
  /\ tasks[k].pc = "idle"
  /\ tasks' = [tasks EXCEPT ![k] =
                 [NoTask EXCEPT !.pc = "count_documents", !.op = "get_todos",
                                !.page = page, !.size = size,
                                !.status = status, !.priority = priority,
                                !.sort_by = sort_by, !.sort_order = sort_order,
                                !.skip = Skip(page, size)]]
  /\ UNCHANGED <<todoVars, userVars, write_log>>

\* the store answers count_documents(filter_query) of task k
GetTodosCount(k) ==
  /\ tasks[k].pc = "count_documents"
  /\ tasks' = [tasks EXCEPT ![k] =
                 [@ EXCEPT !.pc = "find",
                           !.calls = <<"count_documents">>,
                           !.total = count_documents(
                                       collection,
                                       FilterQuery(tasks[k].status, tasks[k].priority)),
                           !.at_count = collection]]
  /\ UNCHANGED <<todoVars, userVars, write_log>>

\* the store answers find(filter_query).sort().skip().limit() of task k; the
\* service builds the envelope with the total counted before
GetTodosFind(k) ==
  /\ tasks[k].pc = "find"
  /\ \E r \in RepoGetTodos(collection, tasks[k].skip, tasks[k].size,
                           tasks[k].status, tasks[k].priority,
                           tasks[k].sort_by, tasks[k].sort_order) :
        tasks' = [tasks EXCEPT ![k] =
                    [@ EXCEPT !.pc = "done",
                              !.calls = <<"count_documents", "find">>,
                              !.todos = [n \in 1..Len(r.todos) |->
                                           convert_to_response(r.todos[n])],
                              !.pages = Pages(tasks[k].total, tasks[k].size),
                              !.http = 200,
                              !.at_find = collection]]
  /\ UNCHANGED <<todoVars, userVars, write_log>>

\* the caller that lists, while the other callers create and delete
ListTasks == {1}

ListWriteInputs ==
  {CreatePayload("a", None, None, None, None),
   CreatePayload("a", None, Some("completed"), Some("high"), None)}

NextListConcurrent ==
  \/ \E todo_data \in ListWriteInputs : CreateTodo(todo_data, MaxTodos)
  \/ \E todo_id \in WellFormedIds(MaxTodos) : DeleteTodo(todo_id)
  \/ Respond
  \/ \E k \in ListTasks : \E page \in 1..MaxPage : \E size \in ListSizes :
       \E status \in StatusFilters :
         GetTodosStart(k, page, size, status, None, "priority", "asc")
  \/ \E k \in ListTasks : GetTodosCount(k)
  \/ \E k \in ListTasks : GetTodosFind(k)

SpecListConcurrent == Init /\ [][NextListConcurrent]_vars

----------------------------------------------------------------------------
(* PUT /todos/{todo_id} from the request body: a JSON object that names some *)
(* fields of TodoUpdate, each with a value or with null. A key the body      *)
(* names with null maps to None, a key with a value v to Some(v).            *)

\* TodoUpdate(**body): every declared field takes the body's value, and the
\* default None when the body does not name it
TodoUpdate(body) ==
  [f \in BaseFields |-> IF f \in DOMAIN body THEN body[f] ELSE None]

\* PUT /todos/{todo_id} with the body the client sent
UpdateTodoBody(todo_id, body) ==
  /\ Idle
  /\ \E todo_data \in {TodoUpdate(body)} :
     \E r \in {RepoUpdateTodo(collection, todo_id, todo_data, now)} :
     \E updated_todo \in {OptionalResponse(r.ret)} :
        /\ collection' = r.coll
        /\ last' = [NoLast EXCEPT !.op = "update_todo", !.todo_id = todo_id,
                                  !.body = body, !.data = todo_data,
                                  !.before = collection,
                                  !.at = now, !.ret = updated_todo,
                                  !.http = IF IsNone(updated_todo) THEN 404 ELSE 200,
                                  !.calls = r.calls]
        /\ created' = IF r.calls # <<>> /\ r.calls[1] = "update_one"
                      THEN MarkWritten(created, ObjectId(todo_id))
                      ELSE created
  /\ walk' = NoWalk
  /\ UNCHANGED <<nextId, now, stamped>>
  /\ UNCHANGED userVars
  /\ UNCHANGED taskVars

\* the body {}
EmptyBody == [f \in {} |-> None]

\* bodies that omit fields, name them with null, or give them values
UpdateBodies ==
  {EmptyBody,
   [description |-> None],
   [title |-> None, description |-> None, status |-> None, priority |-> None,
    due_date |-> None],
   [status |-> Some("completed")],
   [status |-> Some("in_progress"), description |-> None, due_date |-> None],
   [title |-> Some("c"), description |-> Some("y"), due_date |-> None]}

NextBody ==
  \/ Tick(MaxTime)
  \/ \E todo_data \in CreateInputs : CreateTodo(todo_data, MaxTodos)
  \/ Respond
  \/ \E todo_id \in IssuableIds : \E body \in UpdateBodies :
       UpdateTodoBody(todo_id, body)

SpecBody == Init /\ [][NextBody]_vars

----------------------------------------------------------------------------
(* What the claims speak of *)

\* the instant dt with the microseconds below a millisecond dropped
WholeMillis(dt) == dt - (dt % MicrosPerMilli)

\* the record oid of the collection as a client reads it
Record(coll, oid) == BsonDecode(coll[oid])

\* the value a populated payload field reads back as once written
Supplied(todo_data, f) ==
  IF f = "due_date" THEN Some(WholeMillis(Get(todo_data[f])))
  ELSE IF f \in OptionalFields THEN todo_data[f]
  ELSE Get(todo_data[f])

Populated(todo_data) == {f \in BaseFields : ~IsNone(todo_data[f])}

\* the request served named a well-formed id of a record present before it
OnExisting ==
  /\ last.todo_id \in IssuableIds
  /\ ObjectId(last.todo_id) \in DOMAIN last.before

\* the request served named a well-formed id of no record present before it
OnAbsent ==
  /\ last.todo_id \in IssuableIds
  /\ ObjectId(last.todo_id) \notin DOMAIN last.before

\* every record but oid is as it was before the request served
OthersUnchanged(oid) ==
  /\ DOMAIN collection \ {oid} = DOMAIN last.before \ {oid}
  /\ \A j \in DOMAIN collection \ {oid} : collection[j] = last.before[j]

\* the response form of the stored record oid
ResponseOf(coll, oid) ==
  [id          |-> OidStr(oid),
   title       |-> Record(coll, oid).title,
   description |-> Record(coll, oid).description,
   status      |-> Record(coll, oid).status,
   priority    |-> Record(coll, oid).priority,
   due_date    |-> Record(coll, oid).due_date,
   created_at  |-> Record(coll, oid).created_at,
   updated_at  |-> Record(coll, oid).updated_at]

----------------------------------------------------------------------------
\* what C1 says of a get_todo on the id create_todo returned for payload, with
\* no write to the record in between, but for the due_date
RoundTripBut(payload) ==
  /\ ~IsNone(last.ret)
  /\ last.http = 200
  /\ Get(last.ret).id = last.todo_id
  /\ Get(last.ret).title = payload.title
  /\ Get(last.ret).description = payload.description
  /\ Get(last.ret).status =
       (IF IsNone(payload.status) THEN "pending" ELSE Get(payload.status))
  /\ Get(last.ret).priority =
       (IF IsNone(payload.priority) THEN "medium" ELSE Get(payload.priority))
  /\ Get(last.ret).created_at = Get(last.ret).updated_at

\* the create payload of the unwritten record whose id get_todo was asked for
FetchedPayload ==
  created[CHOOSE i \in DOMAIN created : created[i].id = last.todo_id].data

FetchedUnwritten ==
  /\ last.op = "get_todo"
  /\ \E oid \in DOMAIN created : created[oid].id = last.todo_id

\* C1 as claimed: get_todo on the id create_todo returned, with no write to
\* that record in between, answers a record whose title, description, status,
\* priority and due_date are the payload's (pending and medium where the
\* payload omitted them), whose id is the returned id and whose created_at
\* equals its updated_at.
C1_Original ==
  FetchedUnwritten =>
    /\ RoundTripBut(FetchedPayload)
    /\ Get(last.ret).due_date = FetchedPayload.due_date

\* C1 as amended: as claimed, but the due_date answered is the payload's with
\* the microseconds below a millisecond dropped (None where the payload has
\* none).
C1_RoundTrip ==
  FetchedUnwritten =>
    /\ RoundTripBut(FetchedPayload)
    /\ Get(last.ret).due_date =
         (IF IsNone(FetchedPayload.due_date) THEN None
          ELSE Some(WholeMillis(Get(FetchedPayload.due_date))))

\* a record created with a due_date that is no whole millisecond is fetched,
\* unwritten, after the clock advanced and while another record exists
C1_Witness ==
  /\ FetchedUnwritten
  /\ FetchedPayload.due_date = Some(SubMilliInstant)
  /\ Get(last.ret).due_date = Some(StartTime)
  /\ last.at > Get(last.ret).created_at
  /\ Cardinality(DOMAIN collection) = 2

----------------------------------------------------------------------------
\* the frame of update_todo on an existing record: the populated fields read
\* back as the payload's values (a date to the millisecond), every other field
\* of the record but updated_at, and every other record, is as before
UpdateFrame ==
  LET oid == ObjectId(last.todo_id)
  IN /\ oid \in DOMAIN collection
     /\ \A f \in BaseFields :
          Record(collection, oid)[f] =
            IF f \in Populated(last.data)
            THEN Supplied(last.data, f)
            ELSE Record(last.before, oid)[f]
     /\ collection[oid].id = last.before[oid].id
     /\ collection[oid].created_at = last.before[oid].created_at
     /\ OthersUnchanged(oid)

\* C2 as claimed, for a payload with a populated field: update_todo on an
\* existing todo changes exactly the populated fields and updated_at, and
\* updated_at afterwards is strictly greater than before.
C2_Original ==
  (last.op = "update_todo" /\ OnExisting /\ Populated(last.data) # {}) =>
    /\ UpdateFrame
    /\ Record(collection, ObjectId(last.todo_id)).updated_at
         > Record(last.before, ObjectId(last.todo_id)).updated_at

\* C2 as amended: update_todo on an existing todo changes exactly the populated
\* fields and updated_at; with a populated field updated_at becomes the clock
\* reading of the update to the millisecond, which is greater than or equal to
\* its value before; with no populated field updated_at is unchanged.
C2_PartialUpdateFrame ==
  (last.op = "update_todo" /\ OnExisting) =>
    /\ UpdateFrame
    /\ IF Populated(last.data) # {}
       THEN /\ Record(collection, ObjectId(last.todo_id)).updated_at
                 = WholeMillis(last.at)
            /\ Record(collection, ObjectId(last.todo_id)).updated_at
                 >= Record(last.before, ObjectId(last.todo_id)).updated_at
       ELSE collection[ObjectId(last.todo_id)].updated_at
              = last.before[ObjectId(last.todo_id)].updated_at

\* an update of the status alone, after the clock advanced, while another
\* record exists: the status changed and updated_at grew
C2_Witness ==
  /\ last.op = "update_todo"
  /\ OnExisting
  /\ Populated(last.data) = {"status"}
  /\ Cardinality(DOMAIN collection) = 2
  /\ collection[ObjectId(last.todo_id)].status
       # last.before[ObjectId(last.todo_id)].status
  /\ collection[ObjectId(last.todo_id)].updated_at
       > last.before[ObjectId(last.todo_id)].updated_at

----------------------------------------------------------------------------
\* C6. Delete is a hard delete: delete_todo on an id present removes exactly
\* that record and answers true (204); delete_todo and get_todo on an id that
\* is absent, deleted earlier or never present, answer not found (false or
\* None, 404) and leave the store unchanged; an id once deleted stays absent,
\* since the store never hands out an id twice.
C6_HardDelete ==
  /\ (last.op = "delete_todo" /\ OnExisting) =>
       /\ last.ok
       /\ last.http = 204
       /\ ObjectId(last.todo_id) \notin DOMAIN collection
       /\ OthersUnchanged(ObjectId(last.todo_id))
  /\ (last.op = "delete_todo" /\ OnAbsent) =>
       /\ ~last.ok
       /\ last.http = 404
       /\ collection = last.before
  /\ (last.op = "get_todo" /\ OnAbsent) =>
       /\ IsNone(last.ret)
       /\ last.http = 404
       /\ collection = last.before
  /\ DOMAIN collection \subseteq 1..(nextId - 1)

\* a second delete_todo on an id that was issued and deleted, while another
\* record is still stored
C6_Witness ==
  /\ last.op = "delete_todo"
  /\ OnAbsent
  /\ ObjectId(last.todo_id) < nextId
  /\ ~last.ok
  /\ collection # EmptyCollection

----------------------------------------------------------------------------
\* C8. A malformed id is answered like a missing one: for an id string that is
\* no well-formed ObjectId, get_todo and update_todo answer None and
\* delete_todo answers false, the HTTP status is 404, no store call is issued
\* and the store is unchanged.
C8_MalformedId ==
  (last.op \in {"get_todo", "update_todo", "delete_todo"}
     /\ last.todo_id \in MalformedIds) =>
    /\ IsNone(last.ret)
    /\ ~last.ok
    /\ last.http = 404
    /\ last.calls = <<>>
    /\ collection = last.before

\* an update with a populated payload on an id of the wrong length whose
\* digits are those of a stored record's id
C8_Witness ==
  /\ last.op = "update_todo"
  /\ last.todo_id = ShortHexId
  /\ Populated(last.data) # {}
  /\ 1 \in DOMAIN collection

----------------------------------------------------------------------------
\* C9. Update reports not-found only for absent records: for a well-formed id and a payload with a populated field,
\* update_todo answers the post-update record (200) whenever a record with
\* that id exists, and not found (404) only when none exists, also when the
\* values supplied equal the stored ones and the clock has not advanced.
C9_Original ==
  (last.op = "update_todo" /\ last.todo_id \in IssuableIds
     /\ Populated(last.data) # {}) =>
    IF ObjectId(last.todo_id) \in DOMAIN last.before
    THEN /\ last.http = 200
         /\ last.ret = Some(ResponseOf(collection, ObjectId(last.todo_id)))
    ELSE /\ last.http = 404
         /\ IsNone(last.ret)

----------------------------------------------------------------------------
\* C10. An empty partial update is a read: when no field of the payload is
\* populated, update_todo issues no write, leaves the store unchanged, and
\* answers the current record if the id exists and not found if it does not.
C10_EmptyUpdateIsRead ==
  (last.op = "update_todo" /\ Populated(last.data) = {}) =>
    /\ collection = last.before
    /\ \A n \in 1..Len(last.calls) : last.calls[n] = "find_one"
    /\ OnExisting =>
         /\ last.ret = Some(ResponseOf(last.before, ObjectId(last.todo_id)))
         /\ last.http = 200
    /\ ~OnExisting =>
         /\ IsNone(last.ret)
         /\ last.http = 404

\* an empty update on a stored record, after the clock advanced past the
\* record's updated_at
C10_Witness ==
  /\ last.op = "update_todo"
  /\ Populated(last.data) = {}
  /\ OnExisting
  /\ last.at > Record(last.before, ObjectId(last.todo_id)).updated_at
  /\ ~IsNone(last.ret)

----------------------------------------------------------------------------
\* C11. Timestamp and identity invariant: in every state reachable by create,
\* update and delete operations, every stored todo has the created_at stamped
\* at its creation, updated_at >= created_at, the id the store assigned at its
\* creation, distinct from the id of every other stored todo, and a status and
\* a priority of the enumerations; the id and created_at a request body names
\* are not used: create_todo answers an id the store generated and the clock
\* reading as created_at.
C11_TimestampIdentity ==
  /\ DOMAIN stamped = DOMAIN collection
  /\ \A i \in DOMAIN collection :
       /\ Record(collection, i).created_at = stamped[i].created_at
       /\ Record(collection, i).updated_at >= Record(collection, i).created_at
       /\ OidStr(collection[i].id) = stamped[i].id
       /\ \A j \in DOMAIN collection : i # j => collection[i].id # collection[j].id
       /\ collection[i].status \in TodoStatus
       /\ collection[i].priority \in TodoPriority
  /\ last.op = "create_todo" =>
       /\ \A j \in DOMAIN last.before : OidStr(last.before[j].id) # Get(last.ret).id
       /\ ObjectId(Get(last.ret).id) \in DOMAIN collection \ DOMAIN last.before
       /\ Get(last.ret).created_at = WholeMillis(last.at)
       /\ Get(last.ret).id # OidStr(ClientId)

\* an update whose body names an id and a created_at was served on a stored
\* record, in a later millisecond than its creation, while another record is
\* stored
C11_Witness ==
  /\ last.op = "update_todo"
  /\ OnExisting
  /\ "created_at" \in DOMAIN last.data
  /\ "id" \in DOMAIN last.data
  /\ Cardinality(DOMAIN collection) = 2
  /\ Record(collection, ObjectId(last.todo_id)).updated_at
       > Record(collection, ObjectId(last.todo_id)).created_at
  /\ Record(collection, ObjectId(last.todo_id)).created_at # ClientCreatedAt

----------------------------------------------------------------------------
\* the records a listing with these filters is about
Filtered(coll, status, priority) ==
  {i \in DOMAIN coll :
     /\ IsNone(status) \/ coll[i].status = Get(status)
     /\ IsNone(priority) \/ coll[i].priority = Get(priority)}

\* a client has read pages 1..pages of one listing, with no write in between
WalkComplete ==
  /\ last.op = "get_todos"
  /\ walk.active
  /\ walk.next > walk.pages

\* the ids the walk has seen
SeenIds == {walk.seen[n] : n \in 1..Len(walk.seen)}

\* no two records of the listing have the same value of the sort field
SortKeysDistinct ==
  \A i \in Filtered(collection, walk.status, walk.priority) :
    \A j \in Filtered(collection, walk.status, walk.priority) :
      i # j => collection[i][walk.sort_by] # collection[j][walk.sort_by]

\* total is the number of records matching the filter, whatever the page and
\* the size, and a page past the end has no items
TotalIsFilteredCount ==
  last.op = "get_todos" =>
    /\ last.total = Cardinality(Filtered(last.before, last.status, last.priority))
    /\ last.page > last.pages => last.todos = <<>>
    /\ collection = last.before

\* C3. Pagination coverage: pages 1..pages of a listing, read with no write in between,
\* hold every record matching the filter exactly once, so their item counts
\* sum to total, and total is the number of matching records.
C3_Original ==
  /\ TotalIsFilteredCount
  /\ WalkComplete =>
       /\ Len(walk.seen) = walk.total
       /\ Cardinality(SeenIds) = Len(walk.seen)
       /\ SeenIds = {OidStr(i) : i \in Filtered(collection, walk.status, walk.priority)}

\* What does hold of the pages 1..pages of a listing: their item counts sum to
\* total, total is the number of matching records whatever the page and size,
\* and pages past the end hold no items; the pages hold every matching record
\* exactly once when no two matching records have equal values of the sort
\* field.
PaginationCounts ==
  /\ TotalIsFilteredCount
  /\ WalkComplete =>
       /\ Len(walk.seen) = walk.total
       /\ SortKeysDistinct =>
            /\ Cardinality(SeenIds) = Len(walk.seen)
            /\ SeenIds = {OidStr(i) : i \in Filtered(collection, walk.status, walk.priority)}

\* three pages of one todo each were read, of three todos of distinct
\* priorities sorted by priority
PaginationCountsReached ==
  /\ WalkComplete
  /\ walk.pages = 3
  /\ walk.size = 1
  /\ walk.sort_by = "priority"
  /\ SortKeysDistinct
  /\ Cardinality(SeenIds) = 3

----------------------------------------------------------------------------
\* C4. Page arithmetic: get_todos passes skip = (page - 1) * size and
\* limit = size to the repository and reports pages = ceil(total / size) when
\* total > 0 and 1 when total = 0: pages >= 1, and
\* (pages - 1) * size < total <= pages * size when total > 0.
C4_PageArithmetic ==
  last.op = "get_todos" =>
    /\ last.skip = (last.page - 1) * last.size
    /\ last.limit = last.size
    /\ last.pages >= 1
    /\ last.total = 0 => last.pages = 1
    /\ last.total > 0 =>
         /\ (last.pages - 1) * last.size < last.total
         /\ last.total <= last.pages * last.size

\* the second page of size 2 of three todos: skip 2, two pages
C4_Witness ==
  /\ last.op = "get_todos"
  /\ last.total = 3
  /\ last.size = 2
  /\ last.page = 2
  /\ last.skip = 2
  /\ last.pages = 2
  /\ Len(last.todos) = 1

----------------------------------------------------------------------------
\* C5. Sorted listing by priority: with exactly three todos of priorities low, medium and high,
\* get_todos(page=1, size=2, sort_by="priority", sort_order="asc") returns two
\* todos in the order low, medium, with total = 3 and pages = 2.
C5_Original ==
  (/\ last.op = "get_todos"
   /\ Cardinality(DOMAIN last.before) = 3
   /\ {last.before[i].priority : i \in DOMAIN last.before} = TodoPriority
   /\ last.page = 1
   /\ last.size = 2
   /\ IsNone(last.status)
   /\ IsNone(last.priority)
   /\ last.sort_by = "priority"
   /\ last.sort_order = "asc") =>
    /\ Len(last.todos) = 2
    /\ last.todos[1].priority = "low"
    /\ last.todos[2].priority = "medium"
    /\ last.total = 3
    /\ last.pages = 2

----------------------------------------------------------------------------
\* the responses of the stored todos that are not completed and whose due_date
\* is set and strictly before the instant t
DueBefore(t) ==
  {ResponseOf(collection, i) :
     i \in {j \in DOMAIN collection :
              /\ ~IsNone(Record(collection, j).due_date)
              /\ Get(Record(collection, j).due_date) < t
              /\ collection[j].status \in {"pending", "in_progress"}}}

\* an update of the status alone leaves due_date as it was
StatusUpdateKeepsDueDate ==
  (last.op = "update_todo" /\ OnExisting /\ Populated(last.data) = {"status"}) =>
    /\ collection[ObjectId(last.todo_id)].due_date
         = last.before[ObjectId(last.todo_id)].due_date
    /\ collection[ObjectId(last.todo_id)].status = Get(last.data.status)

\* C7 as claimed: get_overdue_todos returns exactly the stored todos whose
\* due_date is set and strictly before the current instant and whose status is
\* not completed; an update of the status leaves due_date as it was.
C7_Original ==
  /\ last.op = "get_overdue_todos" =>
       /\ last.todos = DueBefore(last.at)
       /\ collection = last.before
  /\ StatusUpdateKeepsDueDate

\* C7 as amended: get_overdue_todos returns exactly the stored todos whose
\* due_date is set and strictly before the current instant taken to the
\* millisecond, and whose status is not completed; an update of the status
\* leaves due_date as it was, so a todo with a past due_date leaves the result
\* when completed and is in it again when set back to pending or in_progress.
C7_OverdueFilter ==
  /\ last.op = "get_overdue_todos" =>
       /\ last.todos = DueBefore(WholeMillis(last.at))
       /\ collection = last.before
  /\ StatusUpdateKeepsDueDate

\* the overdue listing holds a todo that was completed and set back to
\* pending, and leaves out one with a past due_date that was completed by an
\* update
C7_Witness ==
  /\ last.op = "get_overdue_todos"
  /\ Cardinality(last.todos) = 1
  /\ \E i \in DOMAIN collection : \E j \in DOMAIN collection :
       /\ i \notin DOMAIN created
       /\ j \notin DOMAIN created
       /\ collection[i].status = "completed"
       /\ Record(collection, i).due_date = Some(StartTime)
       /\ collection[j].status = "pending"
       /\ Record(collection, j).due_date = Some(StartTime)
       /\ collection[j].updated_at > collection[j].created_at
       /\ last.todos = {ResponseOf(collection, j)}

----------------------------------------------------------------------------
\* the users request served named an id of no user present before it: a
\* well-formed id that is absent, or a string that is no well-formed id
OnNoUser ==
  /\ user_last.op \in {"read_user", "delete"}
  /\ \/ user_last.user_id \in MalformedIds
     \/ ObjectId(user_last.user_id) \notin DOMAIN user_last.before

\* C12. Not found in the users backend: get_user and delete_user called with
\* an id that does not exist, or with an id string that is no well-formed
\* ObjectId, report not found (None / false, HTTP 404), raise nothing and
\* leave the user collection unchanged.
C12_Original ==
  OnNoUser =>
    /\ IsNone(user_last.ret)
    /\ ~user_last.ok
    /\ user_last.raised = ""
    /\ user_last.http = 404
    /\ user_collection = user_last.before

\* What does hold: a well-formed id of no user is answered not found (404),
\* and no request on an id of no user changes the user collection.
UsersNotFoundForAbsent ==
  OnNoUser =>
    /\ user_collection = user_last.before
    /\ user_last.user_id \notin MalformedIds =>
         /\ IsNone(user_last.ret)
         /\ ~user_last.ok
         /\ user_last.raised = ""
         /\ user_last.http = 404

----------------------------------------------------------------------------
\* both tasks have completed an update_todo, with a populated field, on one
\* record that was stored when each of them started
BothUpdated ==
  /\ \A k \in Tasks :
       /\ tasks[k].pc = "done"
       /\ tasks[k].op = "update_todo"
       /\ tasks[k].present
       /\ Populated(tasks[k].data) # {}
  /\ tasks[1].todo_id = tasks[2].todo_id

\* the task whose write the store applied last
LastWriter == write_log[Len(write_log)]

\* after both updates every field supplied by one task alone holds that
\* task's value and a field supplied by both holds the last writer's
LastWriteWinsPerField ==
  BothUpdated =>
    \A f \in BaseFields :
      \A k \in Tasks :
        (f \in Populated(tasks[k].data)
           /\ (k = LastWriter \/ f \notin Populated(tasks[LastWriter].data))) =>
          Record(collection, ObjectId(tasks[k].todo_id))[f] = Supplied(tasks[k].data, f)

\* C13. Concurrent partial updates are last-write-wins per field: after two
\* interleaved update_todo requests on one existing record every field
\* supplied by only one request holds that request's value, a field supplied
\* by both holds the value of the write applied last, and no error is
\* reported to either caller.
C13_Original ==
  /\ LastWriteWinsPerField
  /\ BothUpdated =>
       \A k \in Tasks : tasks[k].http = 200 /\ ~IsNone(tasks[k].ret)

\* two updates of disjoint fields interleaved: each wrote before either read
LastWriteWinsReached ==
  /\ BothUpdated
  /\ Populated(tasks[1].data) = {"status"}
  /\ Populated(tasks[2].data) = {"title", "description"}
  /\ \A k \in Tasks : tasks[k].http = 200

----------------------------------------------------------------------------
\* the smaller of two numbers
Min(a, b) == IF a < b THEN a ELSE b

\* a task has been answered a listing
Listed(k) == tasks[k].op = "get_todos" /\ tasks[k].pc = "done"

\* the records matching the filter of task k in a collection
MatchingAt(k, coll) ==
  Cardinality(Filtered(coll, tasks[k].status, tasks[k].priority))

----------------------------------------------------------------------------
\* the body with the keys it names with null left out
DropNulls(body) ==
  [f \in {g \in DOMAIN body : ~IsNone(body[g])} |-> body[f]]

\* the body names no field with a value
OnlyNulls(body) == \A f \in DOMAIN body : IsNone(body[f])

\* C15. Update can never clear a field: update_todo drops every payload field
\* whose value is null before writing, so no update changes a stored todo's
\* description or due_date from a set value back to unset; a payload that
\* names a field with null is treated exactly like the payload that omits it
\* (same store, same store calls, same answer), and a payload of only nulls
\* is treated as the empty update: no write, the current record read back.
C15_UpdateNeverClears ==
  last.op = "update_todo" =>
    /\ DOMAIN collection = DOMAIN last.before
    /\ \A i \in DOMAIN last.before : \A f \in OptionalFields :
         ~IsNone(last.before[i][f]) => ~IsNone(collection[i][f])
    /\ \A i \in DOMAIN last.before : \A f \in BaseFields :
         (f \notin DOMAIN last.body \/ IsNone(last.body[f])) =>
           collection[i][f] = last.before[i][f]
    /\ \E r \in {RepoUpdateTodo(last.before, last.todo_id,
                                TodoUpdate(DropNulls(last.body)), last.at)} :
         /\ collection = r.coll
         /\ last.calls = r.calls
         /\ last.ret = OptionalResponse(r.ret)
    /\ OnlyNulls(last.body) =>
         /\ collection = last.before
         /\ \A n \in 1..Len(last.calls) : last.calls[n] = "find_one"
         /\ OnExisting =>
              /\ last.ret = Some(ResponseOf(last.before, ObjectId(last.todo_id)))
              /\ last.http = 200

\* an update that names description and due_date with null and status with a
\* value was answered 200 on a record whose description and due_date are set
C15_Witness ==
  /\ last.op = "update_todo"
  /\ OnExisting
  /\ last.http = 200
  /\ "status" \in DOMAIN last.body
  /\ {"description", "due_date"} \subseteq DOMAIN last.body
  /\ IsNone(last.body.description) /\ IsNone(last.body.due_date)
  /\ \A f \in OptionalFields :
       ~IsNone(last.before[ObjectId(last.todo_id)][f])
  /\ collection[ObjectId(last.todo_id)].status
       # last.before[ObjectId(last.todo_id)].status

====
